---- MODULE Spec2Model ----
(***************************************************************************)
(* The InPost mailbox scanner: backend/src/services/emailScraper.ts.       *)
(*                                                                         *)
(* The state is the tracking_numbers table, the Telegram messages that     *)
(* were delivered, and the processEmail calls in flight.  processEmails    *)
(* starts one async 'body' handler per fetched message and awaits none of  *)
(* them, and checkInPostEmails starts every account's scan at once, so the *)
(* calls interleave at every await.  Each action below is the code between *)
(* two awaits of one call.                                                 *)
(*                                                                         *)
(* A message is represented by the values the five extractors return for   *)
(* it (lines 369, 380-383) and the emailAccount argument.  SQL NULL and a  *)
(* JavaScript null are the string "NULL" in text columns and 0 in          *)
(* timestamp columns.  CURRENT_TIMESTAMP is the logical clock, which gives *)
(* every sent-at stamp a later value than the stamps before it.  The       *)
(* columns the scanner writes and never reads (email_received_at,          *)
(* send_email_received_at) and the ones it never touches are left out.     *)
(*                                                                         *)
(* Five specifications share the state.  Spec follows the processEmail     *)
(* calls over every registry and message.  ScanSpec follows one account's  *)
(* scan, checkImapAccount and processEmails around the same calls: the     *)
(* connection, the fetch events, the uids to flag.  CycleSpec follows the  *)
(* checkInPostEmails cycles the scheduler starts, with each account's scan *)
(* taken by the ways its promise settles.  ExtractSpec applies the         *)
(* extractors to every text of a few pieces.  JobSpec follows the status   *)
(* job of scheduler.ts, updateAllTrackingStatuses, next to the manual      *)
(* status updates of routes/tracking.ts.                                   *)
(***************************************************************************)
EXTENDS Naturals, Sequences, FiniteSets, TLC

VARIABLES
  db,                \* tracking_numbers: the rows in id order, id = index
  uniqueConstraint,  \* whether the table carries UNIQUE(tracking_number)
  clock,             \* the database's CURRENT_TIMESTAMP
  delivered,         \* per row id: pickup messages the Telegram API accepted
  refused,           \* per row id: pickup messages that failed to go out
  started,           \* processEmail calls started so far
  call,              \* per handler: the processEmail call it runs
  imap,              \* checkImapAccount: the connection and the scan's promise
  results,           \* the messages imap.search returned; the uid is the index
  fetch,             \* processEmails: where the fetch and its promise stand
  processedUids,     \* processEmails: the uids to flag
  flagged,           \* the uid batches handed to imap.addFlags, in order
  outcome,           \* per uid: how the message's handler ended
  unhandled,         \* handler promises that rejected with nobody to catch
  accounts,          \* getImapAccounts(): the configured mailboxes
  cycles,            \* the checkInPostEmails invocations, in start order
  text,              \* the text handed to an extractor, as a sequence of pieces
  extracted,         \* what the extractors returned for it, by extractor
  isRunning,         \* scheduler.ts: the status job's run flag
  runs,              \* the updateAllTrackingStatuses invocations, in start order
  numbers            \* per tracking-number id: current_status, is_manual_status

scanVars == <<imap, results, fetch, processedUids, flagged, outcome, unhandled>>
cycleVars == <<accounts, cycles>>
extractVars == <<text, extracted>>
jobVars == <<isRunning, runs, numbers>>

vars == <<db, uniqueConstraint, clock, delivered, refused, started, call,
          scanVars, cycleVars, extractVars, jobVars>>

\* ------------------------------------------------------------------ bounds

\* processEmail calls (one per fetched message) started in one run
MaxCalls == 2

\* checkInPostEmails invocations (timer ticks, manual triggers) in one run
MaxCycles == 2

\* The 'body' handlers that are in flight at once; a handler that returned
\* makes room for the next message's.
Calls == {1, 2}

\* ------------------------------------------------------------------ values

NULL == "NULL"

TrackingNumbers == {"JJD1"}
PickupCodes == {"111111", "222222"}
SendCodes == {"333333333", "444444444"}
Accounts == {"a@mail"}

\* What the extractors return for a message.  The location is read on the
\* pickup path only and the recipient on the drop-off path only, so each is
\* drawn together with its code: one code comes with the label, one without.
LockerOf(pickupCode) == IF pickupCode = "111111" THEN "Co-op NR13" ELSE NULL
RecipientOf(sendCode) == IF sendCode = "333333333" THEN "Katie Harvey" ELSE NULL

Messages ==
  { [trackingNumber |-> t, pickupCode |-> p, sendCode |-> s,
     lockerId |-> LockerOf(p), recipientName |-> RecipientOf(s),
     emailAccount |-> a] :
      t \in TrackingNumbers \cup {NULL},
      p \in PickupCodes \cup {NULL},
      s \in SendCodes \cup {NULL},
      a \in Accounts \cup {NULL} }

\* ------------------------------------------------------------------ rows

Row(tn, user, chat, account) ==
  [tracking_number |-> tn, user_id |-> user, telegram_chat_id |-> chat,
   email_used |-> account,
   pickup_code |-> NULL, locker_id |-> NULL, pickup_code_sent_at |-> 0,
   send_code |-> NULL, recipient_name |-> NULL, send_code_sent_at |-> 0]

RowsWith(rows, tn) == { i \in DOMAIN rows : rows[i].tracking_number = tn }

NoMatch ==
  [tracking_id |-> 0, user_id |-> NULL, telegram_chat_id |-> NULL,
   pickup_code_sent_at |-> 0, send_code_sent_at |-> 0]

\* ------------------------------------------------------------------ queries

\* SELECT ... FROM tracking_numbers WHERE tracking_number = $1: the ids of the
\* result rows, in table order.
SelectByTrackingNumber(rows, tn) ==
  SelectSeq([i \in 1..Len(rows) |-> i], LAMBDA i : rows[i].tracking_number = tn)

MatchOfRow(rows, id) ==
  [tracking_id |-> id, user_id |-> rows[id].user_id,
   telegram_chat_id |-> rows[id].telegram_chat_id,
   pickup_code_sent_at |-> rows[id].pickup_code_sent_at,
   send_code_sent_at |-> rows[id].send_code_sent_at]

\* Mutant: several rows, and the first one is taken for the match.
matchTrackingNumber_FirstRow(rows, tn) ==
  LET result == SelectByTrackingNumber(rows, tn)
  IN  IF Len(result) = 0 THEN NoMatch ELSE MatchOfRow(rows, result[1])

\* lines 249-282

matchTrackingNumber(rows, tn) ==
  LET result == SelectByTrackingNumber(rows, tn)
  IN  IF Len(result) = 0 THEN NoMatch
      ELSE IF Len(result) > 1 THEN NoMatch
      ELSE MatchOfRow(rows, result[1])

\* UPDATE tracking_numbers SET pickup_code = $1, locker_id = $2, ... WHERE id = $3
updateTrackingWithPickupCode(rows, trackingId, pickupCode, lockerId) ==
  [rows EXCEPT ![trackingId].pickup_code = pickupCode,
               ![trackingId].locker_id = lockerId]

\* UPDATE tracking_numbers SET pickup_code_sent_at = CURRENT_TIMESTAMP WHERE id = $1
markPickupCodeSent(rows, trackingId, now) ==
  [rows EXCEPT ![trackingId].pickup_code_sent_at = now]

\* Mutant: the UPDATE sets the recipient and leaves the send_code column out.
updateTrackingWithSendCode_NoCode(rows, trackingId, sendCode, recipientName) ==
  [rows EXCEPT ![trackingId].recipient_name = recipientName]

\* UPDATE tracking_numbers SET send_code = $1, recipient_name = $2, ... WHERE id = $3
updateTrackingWithSendCode(rows, trackingId, sendCode, recipientName) ==
  [rows EXCEPT ![trackingId].send_code = sendCode,
               ![trackingId].recipient_name = recipientName]

\* UPDATE tracking_numbers SET send_code_sent_at = CURRENT_TIMESTAMP WHERE id = $1
markSendCodeSent(rows, trackingId, now) ==
  [rows EXCEPT ![trackingId].send_code_sent_at = now]

\* createTrackingNumber(trackingNumber, null, null, null, emailAccount): the
\* registry's insert.  It fails on a uniqueness conflict, which only a table
\* that carries the constraint can raise.
InsertConflicts(rows, unique, tn) == unique /\ RowsWith(rows, tn) # {}

createTrackingNumber(rows, tn, account) ==
  Append(rows, Row(tn, NULL, NULL, account))

\* ------------------------------------------------------------------ processEmail's decisions

HasCode(m) == m.pickupCode # NULL \/ m.sendCode # NULL

\* Mutant: a row is created for any unknown tracking number, code or not.
NeedsCreate_NoCodeCheck(mt, m) == mt = NoMatch /\ m.emailAccount # NULL

\* line 389: if (!match && (pickupCode || sendCode) && emailAccount)
NeedsCreate(mt, m) == mt = NoMatch /\ HasCode(m) /\ m.emailAccount # NULL

\* Mutant: the send_code_sent_at guard of line 411 is missing.
SendCodeDue_IgnoreStamp(mt, m) == m.sendCode # NULL

\* lines 405, 411: a send code to store
SendCodeDue(mt, m) == m.sendCode # NULL /\ mt.send_code_sent_at = 0

\* Mutant: line 430 tests the send stamp instead of the pickup stamp.
PickupDue_WrongStamp(mt, m) == m.pickupCode # NULL /\ mt.send_code_sent_at = 0

\* Mutant: the pickup_code_sent_at guard of line 430 is missing.
PickupDue_IgnoreStamp(mt, m) == m.pickupCode # NULL

\* lines 422, 430: a pickup code to store and deliver
PickupDue(mt, m) == m.pickupCode # NULL /\ mt.pickup_code_sent_at = 0

\* line 435: if (match.telegram_chat_id != null)
HasChat(mt) == mt.telegram_chat_id # NULL

\* Mutant: the send code goes out to the record's chat, like a pickup code.
AfterSendCode_Notify(mt, m) ==
  IF m.sendCode # NULL /\ HasChat(mt) THEN "telegram"
  ELSE IF PickupDue(mt, m) THEN "upd_pickup" ELSE "ret"

\* where the call goes once the send-code block (lines 405-419) is over
AfterSendCode(mt, m) == IF PickupDue(mt, m) THEN "upd_pickup" ELSE "ret"

\* where the call goes once it holds a match (line 400)
AfterMatch(mt, m) == IF SendCodeDue(mt, m) THEN "upd_send" ELSE AfterSendCode(mt, m)

\* Mutant: a matched message with a code always counts as processed.
ReturnValue_AnyCode(c) ==
  IF c.threw THEN "threw"
  ELSE IF c.args.trackingNumber = NULL THEN "false"
  ELSE IF c.match = NoMatch THEN "false"
  ELSE IF ~HasCode(c.args) THEN "false"
  ELSE "true"

\* Mutant: lines 464-467 are missing; only this call's work counts.
ReturnValue_NoAlreadyProcessed(c) ==
  IF c.threw THEN "threw"
  ELSE IF c.args.trackingNumber = NULL THEN "false"
  ELSE IF c.match = NoMatch THEN "false"
  ELSE IF ~HasCode(c.args) THEN "false"
  ELSE IF c.processedSomething THEN "true" ELSE "false"

\* lines 395-398 and 458-469, and the early return of line 374
ReturnValue(c) ==
  IF c.threw THEN "threw"
  ELSE IF c.args.trackingNumber = NULL THEN "false"
  ELSE IF c.match = NoMatch THEN "false"
  ELSE IF ~HasCode(c.args) THEN "false"
  ELSE IF c.match.send_code_sent_at # 0 \/ c.match.pickup_code_sent_at # 0 THEN "true"
  ELSE IF c.processedSomething THEN "true" ELSE "false"

\* ------------------------------------------------------------------ calls

NoArgs ==
  [trackingNumber |-> NULL, pickupCode |-> NULL, sendCode |-> NULL,
   lockerId |-> NULL, recipientName |-> NULL, emailAccount |-> NULL]

\* A call's locals (args, match, processedSomething, sent) and position, the
\* uid its handler got from the 'attributes' event (0 where the handler around
\* the call is not followed), and what it did so far: found is the row count of its first lookup, writes the
\* statements it ran, tgCalls its sendPickupCodeToTelegram invocations, and
\* alone whether no other call was in flight at any time since it started.
IdleCall ==
  [pc |-> "idle", args |-> NoArgs, match |-> NoMatch,
   processedSomething |-> FALSE, sent |-> FALSE, threw |-> FALSE,
   found |-> 0, writes |-> {}, tgCalls |-> 0, alone |-> TRUE, uid |-> 0]

\* ------------------------------------------------------------------ initial state

LinkedRow(tn) == Row(tn, "u7", "chat7", NULL)
BareRow(tn) == Row(tn, NULL, NULL, NULL)

\* Registries as the dashboard leaves them: no row, a row added with or
\* without a user and chat.  CREATE TABLE IF NOT EXISTS (db/connection.ts:129)
\* leaves an older table as it is, so a table without the UNIQUE constraint
\* may hold the tracking number twice.
RegistriesUnique ==
  {<<>>} \cup { <<r>> : r \in { LinkedRow(t) : t \in TrackingNumbers }
                              \cup { BareRow(t) : t \in TrackingNumbers } }

RegistriesDuplicate ==
  UNION { { <<LinkedRow(t), LinkedRow(t)>>, <<LinkedRow(t), BareRow(t)>> } :
            t \in TrackingNumbers }

\* No mailbox scan is followed: the connection, the fetch and its bookkeeping.
IdleImap == [phase |-> "idle", ready |-> FALSE, ended |-> FALSE, settled |-> "pending"]

ScanIdle ==
  /\ imap = IdleImap
  /\ results = <<>>
  /\ fetch = "none"
  /\ processedUids = <<>>
  /\ flagged = <<>>
  /\ outcome = <<>>
  /\ unhandled = {}

\* No checkInPostEmails cycle is followed.
CyclesIdle ==
  /\ accounts = <<>>
  /\ cycles = <<>>

\* No extractor is followed.
ExtractIdle ==
  /\ text = <<>>
  /\ extracted = <<>>

\* The status job is not followed.
JobIdle ==
  /\ isRunning = FALSE
  /\ runs = <<>>
  /\ numbers = <<>>

\* The processEmail calls on their own, over every registry and message.
Init ==
  /\ ScanIdle
  /\ CyclesIdle
  /\ ExtractIdle
  /\ JobIdle
  /\ uniqueConstraint \in BOOLEAN
  /\ db \in IF uniqueConstraint THEN RegistriesUnique
            ELSE {<<>>} \cup RegistriesDuplicate
  /\ started = 0
  /\ clock = 1
  /\ delivered = [i \in DOMAIN db |-> 0]
  /\ refused = [i \in DOMAIN db |-> 0]
  /\ call = [p \in Calls |-> IdleCall]

\* ------------------------------------------------------------------ processEmail, await by await

\* lines 389-398 after the first lookup
AfterLookup(mt, m) ==
  IF NeedsCreate(mt, m) THEN "create"
  ELSE IF mt = NoMatch THEN "ret"
  ELSE AfterMatch(mt, m)

\* lines 395-398 after the second lookup
AfterRematch(mt, m) == IF mt = NoMatch THEN "ret" ELSE AfterMatch(mt, m)

\* Mutant: the code is stamped as sent without a Telegram call.
AfterPickupStored_SkipSend(mt) == "mark_pickup"

\* Mutant: the null check on telegram_chat_id is missing.
AfterPickupStored_NoNullCheck(mt) == "telegram"

\* line 435 after the pickup code is stored
AfterPickupStored(mt) == IF HasChat(mt) THEN "telegram" ELSE "mark_pickup"

\* Mutant: the code is stamped whatever sendPickupCodeToTelegram returned.
AfterTelegram_AlwaysStamp(sent) == "mark_pickup"

\* line 443: if (sent)
AfterTelegram(sent) == IF sent THEN "mark_pickup" ELSE "ret"

\* Mutant: the early return of lines 370-375 is missing.
Enter_NoTrackingGuard(rows, m) ==
  LET mt == matchTrackingNumber(rows, m.trackingNumber)
  IN  [IdleCall EXCEPT !.pc = AfterLookup(mt, m), !.args = m, !.match = mt,
                       !.found = Cardinality(RowsWith(rows, m.trackingNumber))]

\* lines 369-386: the call as it stands at its first await
Enter(rows, m) ==
  IF m.trackingNumber = NULL
    THEN [IdleCall EXCEPT !.pc = "ret", !.args = m]
    ELSE LET mt == matchTrackingNumber(rows, m.trackingNumber)
         IN  [IdleCall EXCEPT !.pc = AfterLookup(mt, m), !.args = m, !.match = mt,
                              !.found = Cardinality(RowsWith(rows, m.trackingNumber))]

\* lines 352-386: a handler's call starts; the extractors run, and with a
\* tracking number the first matchTrackingNumber reads the table.
Begin(p, m) ==
  /\ call[p].pc = "idle"
  /\ \A q \in Calls : q < p => call[q].pc # "idle"
  /\ started < MaxCalls
  /\ started' = started + 1
  /\ call' = [q \in Calls |->
                IF q = p
                  THEN [Enter(db, m) EXCEPT
                          !.alone = \A r \in Calls \ {p} : call[r].pc = "idle"]
                  ELSE IF call[q].pc = "idle" THEN call[q]
                  ELSE [call[q] EXCEPT !.alone = FALSE]]
  /\ UNCHANGED <<extractVars, jobVars, scanVars, cycleVars, db, uniqueConstraint, clock, delivered, refused>>

\* line 391: await createTrackingNumber(...); a conflict throws out of processEmail
CreateRow(p) ==
  LET c == call[p] IN
  /\ c.pc = "create"
  /\ IF InsertConflicts(db, uniqueConstraint, c.args.trackingNumber)
       THEN /\ call' = [call EXCEPT ![p].threw = TRUE, ![p].pc = "ret"]
            /\ UNCHANGED <<db, delivered, refused>>
       ELSE /\ db' = createTrackingNumber(db, c.args.trackingNumber, c.args.emailAccount)
            /\ delivered' = Append(delivered, 0)
            /\ refused' = Append(refused, 0)
            /\ call' = [call EXCEPT ![p].writes = @ \cup {"insert"}, ![p].pc = "rematch"]
  /\ UNCHANGED <<extractVars, jobVars, scanVars, cycleVars, uniqueConstraint, clock, started>>

\* line 392: match = await matchTrackingNumber(trackingNumber)
Rematch(p) ==
  LET c == call[p]
      mt == matchTrackingNumber(db, c.args.trackingNumber) IN
  /\ c.pc = "rematch"
  /\ call' = [call EXCEPT ![p].match = mt, ![p].pc = AfterRematch(mt, c.args)]
  /\ UNCHANGED <<extractVars, jobVars, scanVars, cycleVars, db, uniqueConstraint, clock, delivered, refused, started>>

\* line 414: await updateTrackingWithSendCode(...)
StoreSendCode(p) ==
  LET c == call[p] IN
  /\ c.pc = "upd_send"
  /\ db' = updateTrackingWithSendCode(db, c.match.tracking_id, c.args.sendCode,
                                      c.args.recipientName)
  /\ call' = [call EXCEPT ![p].writes = @ \cup {"send_code"}, ![p].pc = "mark_send"]
  /\ UNCHANGED <<extractVars, jobVars, scanVars, cycleVars, uniqueConstraint, clock, delivered, refused, started>>

\* lines 415-417: await markSendCodeSent(...); processedSomething = true
StampSendCode(p) ==
  LET c == call[p] IN
  /\ c.pc = "mark_send"
  /\ db' = markSendCodeSent(db, c.match.tracking_id, clock)
  /\ clock' = clock + 1
  /\ call' = [call EXCEPT ![p].writes = @ \cup {"send_code_sent_at"},
                          ![p].processedSomething = TRUE,
                          ![p].pc = AfterSendCode(c.match, c.args)]
  /\ UNCHANGED <<extractVars, jobVars, scanVars, cycleVars, uniqueConstraint, delivered, refused, started>>

\* line 433: await updateTrackingWithPickupCode(...)
StorePickupCode(p) ==
  LET c == call[p] IN
  /\ c.pc = "upd_pickup"
  /\ db' = updateTrackingWithPickupCode(db, c.match.tracking_id, c.args.pickupCode,
                                        c.args.lockerId)
  /\ call' = [call EXCEPT ![p].writes = @ \cup {"pickup_code"},
                          ![p].pc = AfterPickupStored(c.match)]
  /\ UNCHANGED <<extractVars, jobVars, scanVars, cycleVars, uniqueConstraint, clock, delivered, refused, started>>

\* lines 436-449: sent = await sendPickupCodeToTelegram(...), which reports
\* every failure (no token, an API error, a network error) as false
SendTelegram(p) ==
  LET c == call[p] IN
  /\ c.pc = "telegram"
  /\ \E ok \in BOOLEAN :
       /\ delivered' = IF ok THEN [delivered EXCEPT ![c.match.tracking_id] = @ + 1]
                       ELSE delivered
       /\ refused' = IF ok THEN refused
                     ELSE [refused EXCEPT ![c.match.tracking_id] = @ + 1]
       /\ call' = [call EXCEPT ![p].tgCalls = @ + 1, ![p].sent = ok,
                               ![p].pc = AfterTelegram(ok)]
  /\ UNCHANGED <<extractVars, jobVars, scanVars, cycleVars, db, uniqueConstraint, clock, started>>

\* lines 444-446 and 451-453: await markPickupCodeSent(...); processedSomething = true
StampPickupCode(p) ==
  LET c == call[p] IN
  /\ c.pc = "mark_pickup"
  /\ db' = markPickupCodeSent(db, c.match.tracking_id, clock)
  /\ clock' = clock + 1
  /\ call' = [call EXCEPT ![p].writes = @ \cup {"pickup_code_sent_at"},
                          ![p].processedSomething = TRUE, ![p].pc = "ret"]
  /\ UNCHANGED <<extractVars, jobVars, scanVars, cycleVars, uniqueConstraint, delivered, refused, started>>

\* Mutant: the uid is pushed whatever processEmail returned or threw.
PushesUid_Always(success, uid) == uid # 0

\* lines 499-506: if (success && uid) inside the try; a throw skips the push
PushesUid(success, uid) == success = "true" /\ uid # 0

\* lines 374, 397, 458-469, or the rejection of the call's promise: the call
\* is over with ReturnValue(call[p]); lines 499-506: the handler pushes the
\* uid of a processed message, or logs the error, and is over too
Return(p) ==
  LET c == call[p]
      success == ReturnValue(c) IN
  /\ c.pc = "ret"
  /\ processedUids' = IF PushesUid(success, c.uid) THEN Append(processedUids, c.uid)
                      ELSE processedUids
  /\ outcome' = IF c.uid = 0 THEN outcome ELSE [outcome EXCEPT ![c.uid] = success]
  /\ call' = [call EXCEPT ![p] = IdleCall]
  /\ UNCHANGED <<extractVars, jobVars, cycleVars, db, uniqueConstraint, clock, delivered, refused, started,
                 imap, results, fetch, flagged, unhandled>>

Next ==
  \/ \E p \in Calls, m \in Messages : Begin(p, m)
  \/ \E p \in Calls : CreateRow(p)
  \/ \E p \in Calls : Rematch(p)
  \/ \E p \in Calls : StoreSendCode(p)
  \/ \E p \in Calls : StampSendCode(p)
  \/ \E p \in Calls : StorePickupCode(p)
  \/ \E p \in Calls : SendTelegram(p)
  \/ \E p \in Calls : StampPickupCode(p)
  \/ \E p \in Calls : Return(p)

Spec == Init /\ [][Next]_vars

\* ------------------------------------------------------------------ one account's scan

\* The mails the search may return for the mailbox: a pickup mail, a drop-off
\* mail, a mail with a tracking number and no code, and a pickup mail without
\* tracking number.  processEmails passes account.user as emailAccount
\* (line 590).
Inbox ==
  { m \in Messages :
      /\ m.emailAccount # NULL
      /\ m.pickupCode \in {"111111", NULL}
      /\ m.sendCode \in {"333333333", NULL}
      /\ m.pickupCode = NULL \/ m.sendCode = NULL
      /\ m.trackingNumber = NULL => m.pickupCode # NULL }

\* The non-empty results of imap.search, in search order.
SearchResults == UNION { [1..n -> Inbox] : n \in 1..MaxCalls }

\* checkImapAccount was called: new Imap(account), imap.connect() (lines 542, 605).
ScanInit ==
  /\ CyclesIdle
  /\ ExtractIdle
  /\ JobIdle
  /\ uniqueConstraint = TRUE
  /\ db \in {<<>>} \cup { <<LinkedRow(t)>> : t \in TrackingNumbers }
  /\ started = 0
  /\ clock = 1
  /\ delivered = [i \in DOMAIN db |-> 0]
  /\ refused = [i \in DOMAIN db |-> 0]
  /\ call = [p \in Calls |-> IdleCall]
  /\ imap = [IdleImap EXCEPT !.phase = "connecting"]
  /\ results = <<>>
  /\ fetch = "none"
  /\ processedUids = <<>>
  /\ flagged = <<>>
  /\ outcome = <<>>
  /\ unhandled = {}

\* lines 544-547: 'ready', the connection is up and authenticated; openBox is issued
ImapReady ==
  /\ imap.phase = "connecting"
  /\ imap' = [imap EXCEPT !.phase = "opening", !.ready = TRUE]
  /\ UNCHANGED <<extractVars, jobVars, cycleVars, db, uniqueConstraint, clock, delivered, refused, started, call,
                 results, fetch, processedUids, flagged, outcome, unhandled>>

\* lines 600-603: 'error' while connecting or authenticating; reject(err)
ImapError ==
  /\ imap.phase = "connecting"
  /\ imap' = [imap EXCEPT !.phase = "done", !.settled = "rejected"]
  /\ UNCHANGED <<extractVars, jobVars, cycleVars, db, uniqueConstraint, clock, delivered, refused, started, call,
                 results, fetch, processedUids, flagged, outcome, unhandled>>

\* lines 548-552: if (err) { reject(err); return; }
OpenBoxFailed(im) == [im EXCEPT !.phase = "done", !.settled = "rejected"]

\* lines 547-573: the openBox callback; without error the search is issued
OpenBox ==
  /\ imap.phase = "opening"
  /\ \E err \in BOOLEAN :
       imap' = IF err THEN OpenBoxFailed(imap) ELSE [imap EXCEPT !.phase = "searching"]
  /\ UNCHANGED <<extractVars, jobVars, cycleVars, db, uniqueConstraint, clock, delivered, refused, started, call,
                 results, fetch, processedUids, flagged, outcome, unhandled>>

\* lines 574-579: search error; imap.end(); reject(err)
SearchFails ==
  /\ imap.phase = "searching"
  /\ imap' = [imap EXCEPT !.phase = "done", !.ended = TRUE, !.settled = "rejected"]
  /\ UNCHANGED <<extractVars, jobVars, cycleVars, db, uniqueConstraint, clock, delivered, refused, started, call,
                 results, fetch, processedUids, flagged, outcome, unhandled>>

\* lines 581-586: no results; imap.end(); resolve()
SearchEmpty ==
  /\ imap.phase = "searching"
  /\ imap' = [imap EXCEPT !.phase = "done", !.ended = TRUE, !.settled = "fulfilled"]
  /\ UNCHANGED <<extractVars, jobVars, cycleVars, db, uniqueConstraint, clock, delivered, refused, started, call,
                 results, fetch, processedUids, flagged, outcome, unhandled>>

\* lines 588-590 and 477-479: processEmails is called and issues imap.fetch
SearchFinds(rs) ==
  /\ imap.phase = "searching"
  /\ imap' = [imap EXCEPT !.phase = "fetching"]
  /\ results' = rs
  /\ fetch' = "open"
  /\ outcome' = [k \in 1..Len(rs) |-> "pending"]
  /\ UNCHANGED <<extractVars, jobVars, cycleVars, db, uniqueConstraint, clock, delivered, refused, started, call,
                 processedUids, flagged, unhandled>>

\* lines 591-595: processEmails settled either way; imap.end(); resolve()
ScanOver(im) == [im EXCEPT !.phase = "done", !.ended = TRUE, !.settled = "fulfilled"]

\* lines 481-489: the next message's 'message', 'attributes' and 'body' events;
\* its handler starts and waits for simpleParser
Body(p) ==
  /\ fetch = "open"
  /\ started < Len(results)
  /\ call[p].pc = "idle"
  /\ \A q \in Calls : q < p => call[q].pc # "idle"
  /\ started' = started + 1
  /\ call' = [call EXCEPT ![p] = [IdleCall EXCEPT !.pc = "parse", !.uid = started + 1]]
  /\ UNCHANGED <<extractVars, jobVars, cycleVars, db, uniqueConstraint, clock, delivered, refused,
                 imap, results, fetch, processedUids, flagged, outcome, unhandled>>

\* lines 488-489: await simpleParser(stream) stands before the try of line 498,
\* so its rejection rejects the handler's promise, which nobody holds
ParseFailure(unh, uid) == unh \cup {uid}

\* lines 489-499 and 352-386: simpleParser settles; the handler calls
\* processEmail, which runs up to its first lookup
Parsed(p) ==
  LET c == call[p] IN
  /\ c.pc = "parse"
  /\ \E ok \in BOOLEAN :
       IF ok
         THEN /\ call' = [q \in Calls |->
                            IF q = p
                              THEN [Enter(db, results[c.uid]) EXCEPT
                                      !.uid = c.uid,
                                      !.alone = \A r \in Calls \ {p} :
                                                  call[r].pc \in {"idle", "parse"}]
                              ELSE IF call[q].pc \in {"idle", "parse"} THEN call[q]
                              ELSE [call[q] EXCEPT !.alone = FALSE]]
              /\ UNCHANGED <<outcome, unhandled>>
         ELSE /\ call' = [call EXCEPT ![p] = IdleCall]
              /\ outcome' = [outcome EXCEPT ![c.uid] = "unparsed"]
              /\ unhandled' = ParseFailure(unhandled, c.uid)
  /\ UNCHANGED <<extractVars, jobVars, cycleVars, db, uniqueConstraint, clock, delivered, refused, started,
                 imap, results, fetch, processedUids, flagged>>

\* The set of uids in the array handed to addFlags.
UidSet(uids) == { uids[i] : i \in DOMAIN uids }

\* line 510: 'end' comes once every message of the fetch was emitted; nothing
\* makes it wait for the handlers
FetchEndReady(n, out) == started = n

\* lines 510-528: fetch 'end'; with uids collected addFlags is issued, else
\* the promise resolves at once and checkImapAccount ends the connection
FetchEnd ==
  /\ fetch = "open"
  /\ FetchEndReady(Len(results), outcome)
  /\ IF Len(processedUids) > 0
       THEN /\ flagged' = Append(flagged, UidSet(processedUids))
            /\ fetch' = "flagging"
            /\ UNCHANGED imap
       ELSE /\ fetch' = "resolved"
            /\ imap' = ScanOver(imap)
            /\ UNCHANGED flagged
  /\ UNCHANGED <<extractVars, jobVars, cycleVars, db, uniqueConstraint, clock, delivered, refused, started, call,
                 results, processedUids, outcome, unhandled>>

\* lines 513-522: the addFlags callback; failed or not, resolve(), and
\* checkImapAccount ends the connection (lines 594-595)
FlagsDone ==
  /\ fetch = "flagging"
  /\ fetch' = "resolved"
  /\ imap' = ScanOver(imap)
  /\ UNCHANGED <<extractVars, jobVars, cycleVars, db, uniqueConstraint, clock, delivered, refused, started, call,
                 results, processedUids, flagged, outcome, unhandled>>

\* lines 530-533 and 591-595: fetch 'error'; reject(err), which checkImapAccount
\* catches and logs before it ends the connection
FetchError ==
  /\ fetch = "open"
  /\ fetch' = "rejected"
  /\ imap' = ScanOver(imap)
  /\ UNCHANGED <<extractVars, jobVars, cycleVars, db, uniqueConstraint, clock, delivered, refused, started, call,
                 results, processedUids, flagged, outcome, unhandled>>

ScanNext ==
  \/ ImapReady
  \/ ImapError
  \/ OpenBox
  \/ SearchFails
  \/ SearchEmpty
  \/ \E rs \in SearchResults : SearchFinds(rs)
  \/ \E p \in Calls : Body(p)
  \/ \E p \in Calls : Parsed(p)
  \/ \E p \in Calls : CreateRow(p)
  \/ \E p \in Calls : Rematch(p)
  \/ \E p \in Calls : StoreSendCode(p)
  \/ \E p \in Calls : StampSendCode(p)
  \/ \E p \in Calls : StorePickupCode(p)
  \/ \E p \in Calls : SendTelegram(p)
  \/ \E p \in Calls : StampPickupCode(p)
  \/ \E p \in Calls : Return(p)
  \/ FetchEnd
  \/ FlagsDone
  \/ FetchError

ScanSpec == ScanInit /\ [][ScanNext]_vars

\* ------------------------------------------------------------------ the cycles

\* getImapAccounts(): nothing configured, one mailbox, several mailboxes
Configurations == { <<>>, <<"a@mail">>, <<"a@mail", "b@mail">> }

\* How checkImapAccount's promise rejects: 'error' while connecting or logging
\* in (line 602), the openBox error (line 550), the search error (line 577).
RejectReasons == {"connect", "openBox", "search"}

Fulfilled(scans) == { i \in DOMAIN scans : scans[i] = "fulfilled" }
Rejected(scans) == { i \in DOMAIN scans : scans[i] \in RejectReasons }

CycleInit ==
  /\ ScanIdle
  /\ ExtractIdle
  /\ JobIdle
  /\ uniqueConstraint = TRUE
  /\ db = <<>>
  /\ started = 0
  /\ clock = 1
  /\ delivered = <<>>
  /\ refused = <<>>
  /\ call = [p \in Calls |-> IdleCall]
  /\ accounts \in Configurations
  /\ cycles = <<>>

\* lines 626-628: accounts.map(account => checkImapAccount(account)) starts
\* every account's scan before anything is awaited
StartAll(accts) == [i \in DOMAIN accts |-> "pending"]

\* scheduler.ts 196-203 (every five minutes) or a manual call: checkInPostEmails
\* starts, whatever earlier cycles are doing; without accounts it returns at
\* once (lines 616-620)
Tick ==
  /\ Len(cycles) < MaxCycles
  /\ cycles' = Append(cycles,
                  [status |-> IF Len(accounts) = 0 THEN "returned" ELSE "running",
                   scans |-> StartAll(accounts), successful |-> 0, failed |-> 0])
  /\ UNCHANGED <<extractVars, jobVars, scanVars, db, uniqueConstraint, clock, delivered, refused, started, call,
                 accounts>>

\* lines 540-607: one account's promise settles, resolved (lines 584, 595) or
\* rejected
AccountSettles(c, i) ==
  /\ cycles[c].status = "running"
  /\ cycles[c].scans[i] = "pending"
  /\ \E how \in {"fulfilled"} \cup RejectReasons :
       cycles' = [cycles EXCEPT ![c].scans[i] = how]
  /\ UNCHANGED <<extractVars, jobVars, scanVars, db, uniqueConstraint, clock, delivered, refused, started, call,
                 accounts>>

\* Mutant: Promise.all, which gives up at the first rejection.
AllSettled_FailFast(scans) ==
  \/ \A i \in DOMAIN scans : scans[i] = "fulfilled"
  \/ Rejected(scans) # {}

\* line 626: await Promise.allSettled(...) goes on once every promise settled
AllSettled(scans) == \A i \in DOMAIN scans : scans[i] # "pending"

\* lines 631-642: the summary is counted and logged, and the cycle returns
CycleReturns(c) ==
  /\ cycles[c].status = "running"
  /\ AllSettled(cycles[c].scans)
  /\ cycles' = [cycles EXCEPT ![c].status = "returned",
                              ![c].successful = Cardinality(Fulfilled(cycles[c].scans)),
                              ![c].failed = Cardinality(Rejected(cycles[c].scans))]
  /\ UNCHANGED <<extractVars, jobVars, scanVars, db, uniqueConstraint, clock, delivered, refused, started, call,
                 accounts>>

CycleNext ==
  \/ Tick
  \/ \E c \in DOMAIN cycles, i \in DOMAIN accounts : AccountSettles(c, i)
  \/ \E c \in DOMAIN cycles : CycleReturns(c)

CycleSpec == CycleInit /\ [][CycleNext]_vars

\* ------------------------------------------------------------------ the extractors

\* A text is a sequence of pieces; consecutive pieces are separated by white
\* space (a URL prefix ends in "/"), so every piece starts and ends at a word
\* boundary.  The pieces are the labels the patterns name and the values they
\* capture.
PickupLabels == {"COLLECTION CODE", "Pickup code:", "Code:", "Your code:"}
TrackingLabels == {"PARCEL NO.", "Parcel number", "Tracking number:", "/tracking/"}
NameLabels == {"TO:", "Recipient:"}

UkNumber == "JJD0002233573349014"
UkNumberLower == "jjd0002233573349014"
EuNumber == "620999595320481204012345"
SixDigitRuns == {"247089", "135790"}
SevenDigitRun == "2470891"
CapitalizedWords == {"Katie", "Harvey"}
LowerCaseWords == {"katie"}

Pieces ==
  PickupLabels \cup TrackingLabels \cup NameLabels
    \cup {UkNumber, UkNumberLower, EuNumber} \cup SixDigitRuns \cup {SevenDigitRun}
    \cup CapitalizedWords \cup LowerCaseWords

MaxPieces == 3

Texts == UNION {[1..n -> Pieces] : n \in 1..MaxPieces}

\* The patterns without the g flag: text.match returns the leftmost match and
\* match[1] is its capture group.  labels are the pieces the pattern's literal
\* ends, capture maps each piece the group can start in to what it captures.
LabelMatch(t, labels, capture) ==
  LET at == {i \in 1..(Len(t) - 1) : t[i] \in labels /\ t[i + 1] \in DOMAIN capture}
  IN IF at = {} THEN NULL
     ELSE capture[t[(CHOOSE i \in at : \A j \in at : i <= j) + 1]]

\* The patterns with the g flag: text.match returns the array of all full
\* matches, without groups, so match[1] is the second match of the text and is
\* undefined when the text holds one match.
GlobalMatch(t, whole) ==
  LET all == SelectSeq(t, LAMBDA x : x \in whole)
  IN IF Len(all) >= 2 THEN all[2] ELSE NULL

\* for (const pattern of patterns): the first pattern whose match[1] is truthy
FirstFound(rs) ==
  LET found == {i \in DOMAIN rs : rs[i] # NULL}
  IN IF found = {} THEN NULL
     ELSE rs[CHOOSE i \in found : \A j \in found : i <= j]

\* (\d{6}) after a label: the first six digits of the run that follows
SixDigits ==
  [x \in SixDigitRuns \cup {SevenDigitRun, EuNumber} |->
     IF x = SevenDigitRun THEN "247089"
     ELSE IF x = EuNumber THEN "620999"
     ELSE x]

\* lines 130-154
extractPickupCode(t) ==
  FirstFound(<<
    LabelMatch(t, {"COLLECTION CODE"}, SixDigits),
    LabelMatch(t, {"Pickup code:"}, SixDigits),
    LabelMatch(t, PickupLabels, SixDigits),
    LabelMatch(t, {"Your code:"}, SixDigits),
    GlobalMatch(t, SixDigitRuns)>>)

\* ([A-Z]{2,3}[0-9]{12,21}) with the i flag, and ([A-Z0-9]{12,24}) with it
UkCapture == [x \in {UkNumber, UkNumberLower} |-> x]
AlnumCapture == [x \in {UkNumber, UkNumberLower, EuNumber} |-> x]

\* match[1].toUpperCase().replace(/\s+/g, ''): no capture holds white space
toUpperCase(x) == IF x = UkNumberLower THEN UkNumber ELSE x

\* lines 97-124; the two generic patterns carry g and no i
extractTrackingNumber(t) ==
  LET m == FirstFound(<<
        LabelMatch(t, {"PARCEL NO."}, UkCapture),
        LabelMatch(t, {"Parcel number"}, UkCapture),
        LabelMatch(t, {"Tracking number:"}, AlnumCapture),
        LabelMatch(t, {"/tracking/"}, AlnumCapture),
        GlobalMatch(t, {UkNumber}),
        GlobalMatch(t, {EuNumber})>>)
  IN IF m = NULL THEN NULL ELSE toUpperCase(m)

\* [A-Z][a-z]+ with the i flag is two or more letters of either case.  Each
\* piece starts with these words; the group reads on into the next piece only
\* when the piece is nothing but words.
LeadingWords ==
  [x \in Pieces |->
     CASE x = "COLLECTION CODE" -> <<"COLLECTION", "CODE">>
       [] x = "Pickup code:" -> <<"Pickup", "code">>
       [] x = "Code:" -> <<"Code">>
       [] x = "Your code:" -> <<"Your", "code">>
       [] x = "PARCEL NO." -> <<"PARCEL", "NO">>
       [] x = "Parcel number" -> <<"Parcel", "number">>
       [] x = "Tracking number:" -> <<"Tracking", "number">>
       [] x = "TO:" -> <<"TO">>
       [] x = "Recipient:" -> <<"Recipient">>
       [] x = UkNumber -> <<"JJD">>
       [] x = UkNumberLower -> <<"jjd">>
       [] x \in CapitalizedWords \cup LowerCaseWords -> <<x>>
       [] OTHER -> <<>>]

OnlyWords == CapitalizedWords \cup LowerCaseWords \cup {"COLLECTION CODE", "Parcel number"}

\* the greedy group from piece i on: every word it can read
RECURSIVE WordsFrom(_, _)
WordsFrom(t, i) ==
  IF i > Len(t) THEN <<>>
  ELSE IF t[i] \in OnlyWords THEN LeadingWords[t[i]] \o WordsFrom(t, i + 1)
  ELSE LeadingWords[t[i]]

\* one pattern of lines 229-230: the leftmost label followed by two words or
\* more; the result is the words read, <<>> standing for null
NameMatch(t, labels) ==
  LET at == {i \in 1..Len(t) : t[i] \in labels /\ Len(WordsFrom(t, i + 1)) >= 2}
  IN IF at = {} THEN <<>>
     ELSE WordsFrom(t, (CHOOSE i \in at : \A j \in at : i <= j) + 1)

\* lines 222-241
extractRecipientName(t) ==
  IF NameMatch(t, {"TO:"}) # <<>> THEN NameMatch(t, {"TO:"})
  ELSE NameMatch(t, {"Recipient:"})

\* No processEmail call is followed.
CallsIdle ==
  /\ uniqueConstraint = TRUE
  /\ db = <<>>
  /\ started = 0
  /\ clock = 1
  /\ delivered = <<>>
  /\ refused = <<>>
  /\ call = [p \in Calls |-> IdleCall]

\* The extractors on their own, over every text.
ExtractInit ==
  /\ CallsIdle
  /\ ScanIdle
  /\ CyclesIdle
  /\ JobIdle
  /\ text \in Texts
  /\ extracted = <<>>

Applied(name) == name \in DOMAIN extracted

\* line 369
ExtractTracking ==
  /\ ~Applied("trackingNumber")
  /\ extracted' = extracted @@ ("trackingNumber" :> extractTrackingNumber(text))
  /\ UNCHANGED <<db, uniqueConstraint, clock, delivered, refused, started, call,
                 scanVars, cycleVars, jobVars, text>>

\* line 380
ExtractPickup ==
  /\ ~Applied("pickupCode")
  /\ extracted' = extracted @@ ("pickupCode" :> extractPickupCode(text))
  /\ UNCHANGED <<db, uniqueConstraint, clock, delivered, refused, started, call,
                 scanVars, cycleVars, jobVars, text>>

\* line 383
ExtractName ==
  /\ ~Applied("recipientName")
  /\ extracted' = extracted @@ ("recipientName" :> extractRecipientName(text))
  /\ UNCHANGED <<db, uniqueConstraint, clock, delivered, refused, started, call,
                 scanVars, cycleVars, jobVars, text>>

ExtractNext ==
  \/ ExtractTracking
  \/ ExtractPickup
  \/ ExtractName

ExtractSpec == ExtractInit /\ [][ExtractNext]_vars

\* ------------------------------------------------------------------ the status job

MaxRuns == 2

Ids == {1, 2}
Statuses == {"not_scanned", "scanned", "delivered"}
Triggers == {"cron", "startup", "refresh"}

\* lines 20-26: the rows of the moment, without the delivered and the manual
\* ones; the job keeps this copy for the whole run
RECURSIVE Snapshot(_, _)
Snapshot(rows, i) ==
  IF i \notin DOMAIN rows THEN <<>>
  ELSE IF rows[i].current_status # "delivered" /\ ~rows[i].is_manual_status
       THEN <<[id |-> i, current_status |-> rows[i].current_status]>> \o Snapshot(rows, i + 1)
       ELSE Snapshot(rows, i + 1)

\* updateTrackingStatus(id, status, statusDetails, customTimestamp, isManual):
\* the row takes the status and the manual flag of the call
updateTrackingStatus(rows, id, status, isManual) ==
  [rows EXCEPT ![id] = [current_status |-> status, is_manual_status |-> isManual]]

Busy_Never(flag) == FALSE

\* lines 10-13: the check of the run flag
Busy(flag) == flag

Finally_Keep(flag) == flag

\* lines 102-104: finally { isRunning = false }
Finally(flag) == FALSE

IdleRun == [by |-> "cron", pc |-> "skipped", behind |-> 0, todo |-> <<>>,
            result |-> NULL, exit |-> "none"]

\* The status job on its own, over every registry of two numbers.
JobInit ==
  /\ CallsIdle
  /\ ScanIdle
  /\ CyclesIdle
  /\ ExtractIdle
  /\ isRunning = FALSE
  /\ runs = <<>>
  /\ numbers \in [Ids -> [current_status : Statuses, is_manual_status : BOOLEAN]]

InBody(r) == runs[r].pc \in {"listing", "delay", "check", "write"}

\* lines 9-15, called by the cron tick (191-193), at startup (214) and by
\* POST /refresh (routes/tracking.ts 770-775): check and set of the flag in one
\* synchronous step, up to the first await of line 20
Invoke(by) ==
  /\ Len(runs) < MaxRuns
  /\ by = "startup" => \A r \in DOMAIN runs : runs[r].by # "startup"
  /\ IF Busy(isRunning)
       THEN /\ runs' = Append(runs, [IdleRun EXCEPT
                         !.by = by,
                         !.behind = IF \E r \in DOMAIN runs : InBody(r)
                                      THEN CHOOSE r \in DOMAIN runs : InBody(r) ELSE 0])
            /\ UNCHANGED isRunning
       ELSE /\ runs' = Append(runs, [IdleRun EXCEPT !.by = by, !.pc = "listing"])
            /\ isRunning' = TRUE
  /\ UNCHANGED <<db, uniqueConstraint, clock, delivered, refused, started, call,
                 scanVars, cycleVars, extractVars, numbers>>

\* lines 20-42: getAllTrackingNumbers resolves; with nothing to check the run
\* releases the flag and returns
ListResolves(r) ==
  /\ runs[r].pc = "listing"
  /\ LET todo == Snapshot(numbers, 1)
     IN IF todo = <<>>
          THEN /\ runs' = [runs EXCEPT ![r].pc = "done", ![r].exit = "empty"]
               /\ isRunning' = FALSE
          ELSE /\ runs' = [runs EXCEPT ![r].pc = "delay", ![r].todo = todo]
               /\ UNCHANGED isRunning
  /\ UNCHANGED <<db, uniqueConstraint, clock, delivered, refused, started, call,
                 scanVars, cycleVars, extractVars, numbers>>

\* lines 20, 100-104: getAllTrackingNumbers rejects
ListRejects(r) ==
  /\ runs[r].pc = "listing"
  /\ runs' = [runs EXCEPT ![r].pc = "done", ![r].exit = "listError"]
  /\ isRunning' = Finally(isRunning)
  /\ UNCHANGED <<db, uniqueConstraint, clock, delivered, refused, started, call,
                 scanVars, cycleVars, extractVars, numbers>>

\* lines 50-52: the 500 ms pause is over and checkInPostStatus is called for
\* the next number of the copy
Delay(r) ==
  /\ runs[r].pc = "delay"
  /\ runs' = [runs EXCEPT ![r].pc = "check"]
  /\ UNCHANGED <<db, uniqueConstraint, clock, delivered, refused, started, call,
                 scanVars, cycleVars, extractVars, isRunning, numbers>>

\* lines 48, 97-104: the next number of the loop, or the end of the run
Advance(run, how) ==
  IF Len(run.todo) > 1
    THEN [run EXCEPT !.pc = "delay", !.todo = Tail(run.todo), !.result = NULL]
    ELSE [run EXCEPT !.pc = "done", !.todo = <<>>, !.result = NULL, !.exit = how]

Ends(run) == Len(run.todo) <= 1

\* lines 52-64: checkInPostStatus resolves; when the status differs from the
\* copy's, or the details do, updateTrackingStatus is called
CheckResolves(r, status, detailsChanged) ==
  /\ runs[r].pc = "check"
  /\ IF status # runs[r].todo[1].current_status \/ detailsChanged
       THEN /\ runs' = [runs EXCEPT ![r].pc = "write", ![r].result = status]
            /\ UNCHANGED isRunning
       ELSE /\ runs' = [runs EXCEPT ![r] = Advance(runs[r], "complete")]
            /\ isRunning' = IF Ends(runs[r]) THEN Finally(isRunning) ELSE isRunning
  /\ UNCHANGED <<db, uniqueConstraint, clock, delivered, refused, started, call,
                 scanVars, cycleVars, extractVars, numbers>>

\* lines 52, 86-96: checkInPostStatus rejects; the error is counted and the
\* loop goes on
CheckRejects(r) ==
  /\ runs[r].pc = "check"
  /\ runs' = [runs EXCEPT ![r] = Advance(runs[r], "itemError")]
  /\ isRunning' = IF Ends(runs[r]) THEN Finally(isRunning) ELSE isRunning
  /\ UNCHANGED <<db, uniqueConstraint, clock, delivered, refused, started, call,
                 scanVars, cycleVars, extractVars, numbers>>

\* line 64: the automatic update reaches the table
WriteLands(r) ==
  /\ runs[r].pc = "write"
  /\ numbers' = updateTrackingStatus(numbers, runs[r].todo[1].id, runs[r].result, FALSE)
  /\ runs' = [runs EXCEPT ![r] = Advance(runs[r], "complete")]
  /\ isRunning' = IF Ends(runs[r]) THEN Finally(isRunning) ELSE isRunning
  /\ UNCHANGED <<db, uniqueConstraint, clock, delivered, refused, started, call,
                 scanVars, cycleVars, extractVars>>

\* lines 64, 86-96: updateTrackingStatus rejects
WriteRejects(r) ==
  /\ runs[r].pc = "write"
  /\ runs' = [runs EXCEPT ![r] = Advance(runs[r], "itemError")]
  /\ isRunning' = IF Ends(runs[r]) THEN Finally(isRunning) ELSE isRunning
  /\ UNCHANGED <<db, uniqueConstraint, clock, delivered, refused, started, call,
                 scanVars, cycleVars, extractVars, numbers>>

\* routes/tracking.ts 805-850: PATCH /numbers/:id/status
PatchStatus(id, status) ==
  /\ numbers' = updateTrackingStatus(numbers, id, status, TRUE)
  /\ UNCHANGED <<db, uniqueConstraint, clock, delivered, refused, started, call,
                 scanVars, cycleVars, extractVars, isRunning, runs>>

JobNext ==
  \/ \E by \in Triggers : Invoke(by)
  \/ \E r \in DOMAIN runs : ListResolves(r)
  \/ \E r \in DOMAIN runs : ListRejects(r)
  \/ \E r \in DOMAIN runs : Delay(r)
  \/ \E r \in DOMAIN runs, status \in Statuses, d \in BOOLEAN : CheckResolves(r, status, d)
  \/ \E r \in DOMAIN runs : CheckRejects(r)
  \/ \E r \in DOMAIN runs : WriteLands(r)
  \/ \E r \in DOMAIN runs : WriteRejects(r)
  \/ \E id \in Ids, status \in Statuses : PatchStatus(id, status)

JobSpec == JobInit /\ [][JobNext]_vars

\* ------------------------------------------------------------------ claims

InFlight(p) == call[p].pc # "idle"
Matched(p) == call[p].match # NoMatch
RowOf(p) == db[call[p].match.tracking_id]
Over(p) == call[p].pc = "ret"

\* C1: a call whose lookup found pickup_code_sent_at already set never invokes
\* sendPickupCodeToTelegram, whatever pickup code its message carries.
C1_NoSendOnceStamped ==
  \A p \in Calls :
    Matched(p) /\ call[p].match.pickup_code_sent_at # 0
      => call[p].tgCalls = 0 /\ call[p].pc # "telegram"

\* An earlier call delivered the code and stamped the record; a later message
\* with another pickup code was handled without a Telegram call.
C1_Witness ==
  \E p \in Calls :
    /\ Over(p) /\ Matched(p) /\ call[p].match.pickup_code_sent_at # 0
    /\ delivered[call[p].match.tracking_id] = 1
    /\ call[p].args.pickupCode # NULL
    /\ call[p].args.pickupCode # RowOf(p).pickup_code

\* C2: under every interleaving of the handlers, at most one pickup message per
\* tracking-number record is accepted by Telegram.
C2_NoDoubleSend == \A i \in DOMAIN delivered : delivered[i] <= 1

\* C3: a call whose message yields no pickup code makes no Telegram call and
\* writes nothing but the send code (and the row it may have to create).
C3_SendCodeNeverDelivered ==
  \A p \in Calls :
    InFlight(p) /\ call[p].args.pickupCode = NULL
      => /\ call[p].tgCalls = 0 /\ call[p].pc # "telegram"
         /\ call[p].writes \subseteq {"insert", "send_code", "send_code_sent_at"}

\* A send code was stored and stamped on a record that has a chat linked.
C3_Witness ==
  \E p \in Calls :
    /\ Over(p) /\ call[p].args.pickupCode = NULL
    /\ HasChat(call[p].match)
    /\ call[p].writes = {"send_code", "send_code_sent_at"}
    /\ RowOf(p).send_code = call[p].args.sendCode

\* C4: when the first lookup finds more than one row and the message carries a
\* pickup code, the call inserts nothing, updates nothing, sends nothing and
\* returns false.
C4_AmbiguousNeverActedOn ==
  \A p \in Calls :
    Over(p) /\ call[p].found > 1 /\ call[p].args.pickupCode # NULL
      => /\ call[p].writes = {}
         /\ call[p].tgCalls = 0
         /\ ReturnValue(call[p]) = "false"

DeliveryFailed(p) ==
  /\ Over(p) /\ Matched(p) /\ HasChat(call[p].match)
  /\ call[p].match.pickup_code_sent_at = 0
  /\ call[p].tgCalls = 1 /\ ~call[p].sent

\* C6: a call whose sendPickupCodeToTelegram returned false has stored the
\* pickup code and written no stamp; with no other call in flight meanwhile
\* the record ends with the extracted code and location and no stamp.
C6_FailureLeavesCodeUnstamped ==
  \A p \in Calls :
    DeliveryFailed(p)
      => /\ "pickup_code" \in call[p].writes
         /\ "pickup_code_sent_at" \notin call[p].writes
         /\ call[p].alone =>
              /\ RowOf(p).pickup_code = call[p].args.pickupCode
              /\ RowOf(p).locker_id = call[p].args.lockerId
              /\ RowOf(p).pickup_code_sent_at = 0

\* A delivery failed for a message with a code and a location, on its own.
C6_Witness ==
  \E p \in Calls :
    /\ DeliveryFailed(p) /\ call[p].alone
    /\ call[p].args.lockerId # NULL
    /\ refused[call[p].match.tracking_id] = 1

\* C7: a call that finds a record with a chat id and no pickup stamp, for a
\* message with a pickup code, invokes sendPickupCodeToTelegram; and a call
\* stamps such a record only after its own send returned true.
C7_RetriedUntilDelivered ==
  \A p \in Calls :
    Matched(p) /\ HasChat(call[p].match) /\ call[p].match.pickup_code_sent_at = 0
      => /\ Over(p) /\ call[p].args.pickupCode # NULL => call[p].tgCalls = 1
         /\ call[p].pc = "mark_pickup" \/ "pickup_code_sent_at" \in call[p].writes
              => call[p].sent /\ call[p].tgCalls = 1

\* After a refused delivery a later call sent the stored code again, got it
\* through, and stamped the record.
C7_Witness ==
  \E p \in Calls :
    /\ Over(p) /\ Matched(p) /\ HasChat(call[p].match)
    /\ refused[call[p].match.tracking_id] = 1
    /\ delivered[call[p].match.tracking_id] = 1
    /\ call[p].alone /\ call[p].sent
    /\ "pickup_code_sent_at" \in call[p].writes
    /\ RowOf(p).pickup_code_sent_at # 0

\* The call p is over for a message with a pickup code, on a record without a
\* chat id that had no pickup stamp when p looked it up.
NoChannel(p) ==
  /\ Over(p) /\ Matched(p) /\ ~HasChat(call[p].match)
  /\ call[p].match.pickup_code_sent_at = 0
  /\ call[p].args.pickupCode # NULL

C9_NoTrackingNumberNoEffect ==
  \A p \in Calls :
    InFlight(p) /\ call[p].args.trackingNumber = NULL
      => /\ Over(p) /\ ~Matched(p)
         /\ call[p].writes = {} /\ call[p].tgCalls = 0
         /\ ReturnValue(call[p]) = "false"

\* A message with both codes but no tracking number was dropped.
C9_Witness ==
  \E p \in Calls :
    /\ Over(p) /\ call[p].args.trackingNumber = NULL
    /\ call[p].args.pickupCode # NULL /\ call[p].args.sendCode # NULL
    /\ call[p].args.emailAccount # NULL

\* The call inserted a row, and the table holds a row as createTrackingNumber
\* makes it for the call's arguments.
CreatedRow(p) ==
  /\ "insert" \in call[p].writes
  /\ \E i \in DOMAIN db :
       db[i] = [Row(call[p].args.trackingNumber, NULL, NULL, call[p].args.emailAccount)
                  EXCEPT !.pickup_code = db[i].pickup_code,
                         !.locker_id = db[i].locker_id,
                         !.pickup_code_sent_at = db[i].pickup_code_sent_at,
                         !.send_code = db[i].send_code,
                         !.recipient_name = db[i].recipient_name,
                         !.send_code_sent_at = db[i].send_code_sent_at]

C11_DropOffRecordedOnce ==
  \A p \in Calls :
    Matched(p) /\ call[p].args.sendCode # NULL
      => IF call[p].match.send_code_sent_at = 0
           THEN Over(p)
                  => /\ {"send_code", "send_code_sent_at"} \subseteq call[p].writes
                     /\ RowOf(p).send_code_sent_at # 0
                     /\ call[p].alone =>
                          /\ RowOf(p).send_code = call[p].args.sendCode
                          /\ RowOf(p).recipient_name = call[p].args.recipientName
           ELSE /\ call[p].writes \cap {"send_code", "send_code_sent_at"} = {}
                /\ call[p].pc \notin {"upd_send", "mark_send"}
                /\ call[p].alone
                     => RowOf(p).send_code_sent_at = call[p].match.send_code_sent_at

\* A first drop-off mail was recorded with its recipient; a second one with
\* another send code found the stamp and left the record as it was.
C11_Witness ==
  \E p \in Calls :
    /\ Over(p) /\ Matched(p) /\ call[p].alone
    /\ call[p].match.send_code_sent_at # 0
    /\ call[p].args.sendCode # NULL
    /\ RowOf(p).send_code # call[p].args.sendCode
    /\ RowOf(p).recipient_name # NULL
    /\ call[p].args.recipientName = NULL

\* Every code the message of call p carries had its stamp set on the record
\* that p's first lookup found.
AllCodesStamped(p) ==
  /\ Matched(p) /\ call[p].found = 1 /\ HasCode(call[p].args)
  /\ call[p].args.pickupCode # NULL => call[p].match.pickup_code_sent_at # 0
  /\ call[p].args.sendCode # NULL => call[p].match.send_code_sent_at # 0

\* C21: a call whose message carries only codes that were already stamped on
\* the matched record runs no statement and no Telegram call, and returns true.
C21_AlreadyProcessed ==
  \A p \in Calls :
    AllCodesStamped(p)
      => /\ call[p].writes = {} /\ call[p].tgCalls = 0
         /\ Over(p)
         /\ ReturnValue(call[p]) = "true"
         /\ ~call[p].processedSomething

\* A mail with both codes came again after both had been recorded.
C21_Witness ==
  \E p \in Calls :
    /\ Over(p) /\ AllCodesStamped(p)
    /\ call[p].args.pickupCode # NULL /\ call[p].args.sendCode # NULL
    /\ RowOf(p).pickup_code = call[p].args.pickupCode
    /\ RowOf(p).send_code = call[p].args.sendCode

\* The pickup columns of row i are the same before and after the step.
PickupColumnsKept(i) ==
  /\ db'[i].pickup_code = db[i].pickup_code
  /\ db'[i].locker_id = db[i].locker_id
  /\ db'[i].pickup_code_sent_at = db[i].pickup_code_sent_at

\* C22: a step of a call that read pickup_code_sent_at as set on its record
\* leaves the record's pickup_code, locker_id and pickup_code_sent_at as they
\* are: once the stamp is set, only a call that had looked the record up
\* before can still write these columns.
C22_StampedPickupFrozen ==
  [][\A p \in Calls :
       /\ call'[p] # call[p]
       /\ Matched(p) /\ call[p].match.pickup_code_sent_at # 0
       => \A i \in DOMAIN db : db[i].pickup_code_sent_at # 0 => PickupColumnsKept(i)]_vars

\* A later mail with another code and another location found the stamp and
\* left code, location and stamp as they were.
C22_Witness ==
  \E p \in Calls :
    /\ Over(p) /\ Matched(p) /\ call[p].alone
    /\ call[p].match.pickup_code_sent_at # 0
    /\ call[p].args.pickupCode # NULL
    /\ call[p].args.pickupCode # RowOf(p).pickup_code
    /\ call[p].args.lockerId # RowOf(p).locker_id
    /\ RowOf(p).pickup_code_sent_at = call[p].match.pickup_code_sent_at

C27_StampImpliesCode ==
  \A i \in DOMAIN db :
    /\ db[i].pickup_code_sent_at # 0 => db[i].pickup_code # NULL
    /\ db[i].send_code_sent_at # 0 => db[i].send_code # NULL

\* Two handlers wrote the same record, and it carries both stamps and both codes.
C27_Witness ==
  \E i \in DOMAIN db :
    /\ db[i].pickup_code_sent_at # 0 /\ db[i].send_code_sent_at # 0
    /\ db[i].pickup_code # NULL /\ db[i].send_code # NULL
    /\ \E p \in Calls : Matched(p) /\ call[p].match.tracking_id = i /\ ~call[p].alone

\* C15: at most one checkInPostEmails cycle is in flight at any time.
C15_CyclesNeverOverlap ==
  Cardinality({ c \in DOMAIN cycles : cycles[c].status = "running" }) <= 1

\* C16: every cycle starts a scan for every configured account, and a cycle
\* that is over has returned (not thrown) with every account's scan settled on
\* its own, the fulfilled and the rejected ones counted apart.
C16_AccountsIsolated ==
  \A c \in DOMAIN cycles :
    /\ DOMAIN cycles[c].scans = DOMAIN accounts
    /\ cycles[c].status # "running"
         => /\ cycles[c].status = "returned"
            /\ \A i \in DOMAIN accounts : cycles[c].scans[i] # "pending"
            /\ cycles[c].successful = Cardinality(Fulfilled(cycles[c].scans))
            /\ cycles[c].failed = Cardinality(Rejected(cycles[c].scans))
            /\ cycles[c].successful + cycles[c].failed = Len(accounts)

\* A cycle returned with the first mailbox failing to connect and the second
\* one scanned to the end.
C16_Witness ==
  \E c \in DOMAIN cycles :
    /\ cycles[c].status = "returned"
    /\ Len(accounts) = 2
    /\ cycles[c].scans[1] = "connect" /\ cycles[c].scans[2] = "fulfilled"
    /\ cycles[c].successful = 1 /\ cycles[c].failed = 1

\* C17: on a table with the constraint, a call that found no row for a message
\* with a code and a known mailbox ends holding a match, whether its insert
\* went through or met the row another writer had inserted meanwhile; the
\* conflict does not end the call as an error.
C17_ConflictRecovered ==
  \A p \in Calls :
    /\ Over(p) /\ uniqueConstraint /\ call[p].found = 0
    /\ call[p].args.trackingNumber # NULL
    /\ HasCode(call[p].args) /\ call[p].args.emailAccount # NULL
    => ~call[p].threw /\ Matched(p)

\* ------------------------------------------------------------------ claims on the scan

Uids == 1..Len(results)
Flagged == UNION { flagged[i] : i \in DOMAIN flagged }
HandlersOver == started = Len(results) /\ \A k \in Uids : outcome[k] # "pending"

\* C12: once the scan's promise has settled and every handler is over, every
\* message whose processEmail returned true is in the batch given to addFlags,
\* whenever 'end' came.
C12_ProcessedAreFlagged ==
  imap.phase = "done" /\ fetch = "resolved" /\ HandlersOver
    => \A k \in Uids : outcome[k] = "true" => k \in Flagged

\* C13: only messages whose processEmail returned true are ever in a batch
\* given to addFlags or in processedUids: none that was skipped, threw or
\* failed to parse.
C13_SkippedNeverFlagged ==
  \A k \in Flagged \cup UidSet(processedUids) : outcome[k] = "true"

\* A batch went out with the processed message while the scan's other message
\* had thrown on its insert.
C13_Witness ==
  /\ Flagged # {}
  /\ \E k \in Uids : outcome[k] = "threw" /\ k \notin Flagged
  /\ fetch = "resolved"

\* C14: addFlags is issued at most once in a scan, and when it is issued, and
\* when the connection is ended after the fetch, no handler of the scan is
\* still pending.
C14_FlaggedOnceAfterAllDecisions ==
  /\ Len(flagged) <= 1
  /\ results # <<>> /\ (flagged # <<>> \/ imap.ended) /\ fetch # "rejected"
       => HandlersOver

\* C18: a handler is inside processEmail only when the handlers of all earlier
\* messages of the scan are over.
C18_SearchOrder ==
  \A p \in Calls :
    call[p].pc \notin {"idle", "parse"}
      => \A k \in Uids : k < call[p].uid => outcome[k] # "pending"

\* C19: no handler's promise rejects unhandled: a parser failure is caught.
C19_ParseFailureCaught == unhandled = {}

\* C20: a scan whose connection got ready and whose promise has settled has
\* ended its connection.
C20_ReadyEndsDisconnected ==
  imap.ready /\ imap.settled # "pending" => imap.ended

\* ------------------------------------------------------------------ claims on the extractors

\* the label followed by a run of six digits or more, and what it captures
LabelledCodes ==
  {SixDigits[text[i + 1]] :
     i \in {j \in 1..(Len(text) - 1) :
              text[j] \in PickupLabels /\ text[j + 1] \in DOMAIN SixDigits}}

BareCodes == SelectSeq(text, LAMBDA x : x \in SixDigitRuns)

\* C23: a pickup code after a label is returned; with no label match the
\* first stand-alone 6-digit run of the text is returned; the result is
\* not-found only when the text holds no 6-digit run.
C23_PickupCodeFound ==
  Applied("pickupCode") =>
    /\ LabelledCodes # {} => extracted["pickupCode"] \in LabelledCodes
    /\ LabelledCodes = {} /\ BareCodes # <<>> => extracted["pickupCode"] = BareCodes[1]
    /\ extracted["pickupCode"] = NULL => LabelledCodes = {} /\ BareCodes = <<>>

ValidNumbers == {UkNumber, EuNumber}
Occurrences == SelectSeq(text, LAMBDA x : x \in ValidNumbers)
LabelledNumbers ==
  {text[i + 1] :
     i \in {j \in 1..(Len(text) - 1) :
              text[j] \in TrackingLabels /\ text[j + 1] \in ValidNumbers}}

\* C24: a text with one valid tracking number, after a label, in a URL or
\* bare, yields that number; a labelled number wins over a bare one.
C24_TrackingNumberFound ==
  Applied("trackingNumber") =>
    /\ Len(Occurrences) = 1 /\ (\A i \in DOMAIN text : text[i] # UkNumberLower)
         => extracted["trackingNumber"] = Occurrences[1]
    /\ LabelledNumbers # {} => extracted["trackingNumber"] \in LabelledNumbers

\* C25: a name is returned only when the label is followed by two
\* capitalized words.
C25_NameNeedsCapitalizedWords ==
  Applied("recipientName") /\ extracted["recipientName"] # <<>> =>
    \E i \in 1..(Len(text) - 2) :
      /\ text[i] \in NameLabels
      /\ text[i + 1] \in CapitalizedWords
      /\ text[i + 2] \in CapitalizedWords

\* ------------------------------------------------------------------ claims on the status job

\* C28: at most one body of updateAllTrackingStatuses executes at a time, and
\* an invocation that finds a run in progress returns without reading or
\* updating any tracking number.
C28_OneBodyAtATime ==
  /\ Cardinality({r \in DOMAIN runs : InBody(r)}) <= 1
  /\ \A r \in DOMAIN runs :
       runs[r].behind # 0 =>
         /\ runs[r].pc = "skipped" /\ runs[r].todo = <<>> /\ runs[r].result = NULL
         /\ runs[r].exit = "none"
  /\ \A r \in DOMAIN runs : InBody(r) => isRunning

C28_Witness ==
  \E r, q \in DOMAIN runs :
    /\ runs[r].pc = "write"
    /\ runs[q].pc = "skipped" /\ runs[q].behind = r
    /\ runs[q].by = "refresh"

\* C29: once every invocation that acquired the flag has finished, by
\* whatever path, isRunning is false; no invocation is skipped because of a
\* finished run.
C29_FlagReleased ==
  /\ (\A r \in DOMAIN runs : ~InBody(r)) => ~isRunning
  /\ \A r \in DOMAIN runs : runs[r].pc = "skipped" => runs[r].behind # 0

C29_Witness ==
  \E r, q \in DOMAIN runs :
    /\ r < q
    /\ runs[r].pc = "done" /\ runs[r].exit \in {"listError", "itemError"}
    /\ runs[q].pc = "done" /\ runs[q].exit = "complete"

\* C30: the job never writes an automatic status to a number whose
\* is_manual_status is set at the time of the write, and never checks a
\* number that is delivered.
C30_ManualAndDeliveredLeftAlone ==
  [][\A r \in DOMAIN runs :
       LET id == runs[r].todo[1].id
       IN /\ runs[r].pc = "write" /\ runs'[r].pc # "write" /\ numbers'[id] # numbers[id]
               => ~numbers[id].is_manual_status
          /\ runs[r].pc = "delay" /\ runs'[r].pc = "check"
               => numbers[id].current_status # "delivered"]_vars

====
